---- MODULE Spec2Model ----
(***************************************************************************)
(* A model of the Go indexer of go_indexer/internal/indexer/indexer.go:    *)
(* one Indexer value, the goroutines that call Start and Shutdown on it,   *)
(* the ticker and the context of every Start call, and the ledger the      *)
(* indexer is meant to follow.                                             *)
(***************************************************************************)
EXTENDS Integers, FiniteSets, Sequences, TLC

\* -------------------------------------------------------------------------
\* Bounds of the model
\* -------------------------------------------------------------------------

\* currentSlot is a uint64: its arithmetic is modulo 2^64.  The model keeps
\* the wrap-around and scales the word down to SlotModulus values.
SlotModulus == 6

\* The ledger is followed up to this slot.
MaxLedgerHeight == 2

\* The goroutines that call Start, and those that call Shutdown; each makes
\* one call.  Two of each give every order and overlap of two calls.
StartCalls == {"start1", "start2"}

ShutdownCalls == {"shutdown1", "shutdown2"}

Slots == 0..(SlotModulus - 1)

\* The number of ProcessBlock calls that are followed.
MaxProcessCalls == 2

\* ix.Data[:8]: the width of an instruction discriminator.
DiscriminatorWidth == 8

\* A Config that Validate accepts.
ValidConfig == [StartSlot |-> 0, BatchSize |-> 2, PollInterval |-> 1, MaxConcurrency |-> 1]

\* The Configs handed to New: the valid one and those that differ from it in
\* one field.  New does not validate, so a Config with a BatchSize,
\* MaxConcurrency or PollInterval that Validate would reject (or that Validate
\* does not look at) is an input as well.  StartSlot SlotModulus-1 is the top
\* of the word (START_SLOT=-1 after uint64()).
Configs ==
    {ValidConfig,
     [ValidConfig EXCEPT !.StartSlot = SlotModulus - 1],
     [ValidConfig EXCEPT !.BatchSize = -1],
     [ValidConfig EXCEPT !.MaxConcurrency = 0],
     [ValidConfig EXCEPT !.PollInterval = 0]}

\* -------------------------------------------------------------------------
\* State
\* -------------------------------------------------------------------------
VARIABLES
    cfg,          \* Indexer.cfg, the Config given to New
    made,         \* New has returned an Indexer
    newErr,       \* the error the last New call returned
    currentSlot,  \* Indexer.currentSlot
    isRunning,    \* Indexer.isRunning
    onceDone,     \* Indexer.shutdownOnce has run its function
    crashed,      \* the process has died of a panic
    pc,           \* where each Start call is
    ctx,          \* the context of each Start call: "live" or "canceled"
    tick,         \* whether ticker.C of each Start call holds a tick
    work,         \* where the processBlocks invocation of each Start call is
    snapshot,     \* processBlocks' local currentSlot
    ret,          \* what each Start call returned
    spc,          \* where each Shutdown call is
    sret,         \* what each Shutdown call returned
    sawLoops,     \* the Start loops that were active when each Shutdown call was made
    ledgerHeight, \* the highest slot the ledger has produced
    processed,    \* the slots whose block processing has completed
    labels,       \* which case labels handleStarterProgram has: "names" or "idl"
    repository,   \* idx.repository: "nil" or "postgres"
    transactions, \* the signatures in table transactions
    rows,         \* table user_account_events, in insertion order
    gpc,          \* where the ProcessBlock call is
    block,        \* block.Transactions of the last fetched block, as signatures
    ti,           \* the transaction the loop of ProcessBlock is at
    ii,           \* the instruction the inner loop is at
    events,       \* the events built so far for the transaction at ti
    decoded,      \* per signature, the events built each time it was handled
    calls,        \* the number of ProcessBlock calls made
    saveCalls,    \* the repository calls the current ProcessBlock call has made
    gret,         \* what the last ProcessBlock call returned
    environ,      \* the environment of the process, per variable
    loaded,       \* what the Load call returned
    validated,    \* the Config of the last Validate call and what it returned
    exited        \* the process has left main

vars ==
    <<cfg, made, newErr, currentSlot, isRunning, onceDone, crashed, pc, ctx, tick, work,
      snapshot, ret, spc, sret, sawLoops, ledgerHeight, processed,
      labels, repository, transactions, rows, gpc, block, ti, ii, events,
      decoded, calls, saveCalls, gret, environ, loaded, validated, exited>>

idxVars == <<cfg, made, newErr, currentSlot, isRunning, onceDone, crashed>>

startVars == <<pc, ctx, tick, work, snapshot, ret>>

shutdownVars == <<spc, sret, sawLoops>>

envVars == <<ledgerHeight, processed>>

guideVars ==
    <<labels, repository, transactions, rows, gpc, block, ti, ii, events,
      decoded, calls, saveCalls, gret>>

configVars == <<environ, loaded, validated>>

\* -------------------------------------------------------------------------
\* Helpers
\* -------------------------------------------------------------------------

\* uint64(batchSize): the conversion of a (possibly negative) int to the word.
ToUint64(n) == n % SlotModulus

\* i.currentSlot += uint64(batchSize)
AddSlot(slot, batchSize) == (slot + ToUint64(batchSize)) % SlotModulus

\* The slots one processBlocks call covers: batchSize slots from the slot it read.
BatchWindow(slot, batchSize) ==
    IF batchSize > 0 THEN {s \in Slots : s >= slot /\ s < slot + batchSize} ELSE {}

\* A Start call is inside its for/select loop.
InLoop(c) == pc[c] \in {"select", "inCall"}

\* GetCurrentSlot(): currentSlot, read under RLock.
GetCurrentSlot == currentSlot

\* IsRunning(): isRunning, read under RLock.
IsRunning == isRunning

\* A Start that reports a cancelled context as success.
CtxErr_Nil(c) == "nil"

\* ctx.Err()
CtxErr(c) == IF ctx[c] = "canceled" THEN "context canceled" ELSE "nil"

\* -------------------------------------------------------------------------
\* The block processor of the integration guide (processor.go, postgres.go)
\* -------------------------------------------------------------------------

StarterProgramID == "gARh1g6reuvsAHB7DXqiuYzzyiJeoiJmtmCpV8Y5uWC"

CounterProgramID == "CounzVsCGF4VzNkAwePKC9mXr6YWiFYF4kLW6YdV8Cc"

SystemProgramID == "11111111111111111111111111111111"

\* tx.Message.AccountKeys of the transactions below (ProgramIDIndex counts from 1 here).
AccountKeys == <<StarterProgramID, CounterProgramID, SystemProgramID>>

\* The case labels of handleStarterProgram as the guide prints them: the names
\* of the instructions, as byte strings.
NameLabels ==
    [create |-> <<"c","r","e","a","t","e","_","u","s","e","r","_","a","c","c","o","u","n","t">>,
     update |-> <<"u","p","d","a","t","e","_","u","s","e","r","_","a","c","c","o","u","n","t">>,
     increment |-> <<"i","n","c","r","e","m","e","n","t","_","c","o","u","n","t","e","r">>]

\* The case labels after the guide's advice is followed ("You can get these
\* from target/idl/starter_program.json"): the 8-byte discriminators of the
\* three instructions.
IdlLabels ==
    [create |-> <<"c1","c2","c3","c4","c5","c6","c7","c8">>,
     update |-> <<"u1","u2","u3","u4","u5","u6","u7","u8">>,
     increment |-> <<"i1","i2","i3","i4","i5","i6","i7","i8">>]

\* The case labels of handleStarterProgram.
CaseLabels == IF labels = "idl" THEN IdlLabels ELSE NameLabels

\* The instructions of the transactions below.
\* create_user_account as the program receives it: its discriminator, two accounts.
IxCreate ==
    [ProgramIDIndex |-> 1, Data |-> IdlLabels.create, Accounts |-> <<"authority", "userPDA">>]

\* An instruction whose data is the name of the instruction.
IxCreateByName ==
    [ProgramIDIndex |-> 1, Data |-> NameLabels.create, Accounts |-> <<"authority", "userPDA">>]

\* An instruction whose data is shorter than a discriminator.
IxShortData ==
    [ProgramIDIndex |-> 1, Data |-> <<"c1","c2","c3">>, Accounts |-> <<"authority", "userPDA">>]

\* create_user_account without its accounts.
IxCreateNoAccounts ==
    [ProgramIDIndex |-> 1, Data |-> IdlLabels.create, Accounts |-> <<>>]

\* create_user_account for a second user.
IxCreateSecond ==
    [ProgramIDIndex |-> 1, Data |-> IdlLabels.create, Accounts |-> <<"authority2", "userPDA2">>]

\* An instruction of a program the indexer does not track, without data.
IxSystem ==
    [ProgramIDIndex |-> 3, Data |-> <<>>, Accounts |-> <<"authority">>]

Signatures == {"sigA", "sigB", "sigC", "sigD", "sigE"}

\* The transactions the ledger holds, by signature.
Transactions ==
    [sigA |-> [Signature |-> "sigA", Slot |-> 1, BlockTime |-> 100,
               Instructions |-> <<IxCreate>>],
     sigB |-> [Signature |-> "sigB", Slot |-> 1, BlockTime |-> 100,
               Instructions |-> <<IxSystem, IxCreateByName>>],
     sigC |-> [Signature |-> "sigC", Slot |-> 1, BlockTime |-> 100,
               Instructions |-> <<IxShortData, IxCreate>>],
     sigD |-> [Signature |-> "sigD", Slot |-> 1, BlockTime |-> 100,
               Instructions |-> <<IxCreateNoAccounts>>],
     sigE |-> [Signature |-> "sigE", Slot |-> 1, BlockTime |-> 100,
               Instructions |-> <<IxCreate, IxCreateSecond>>]]

\* block.Transactions of the blocks GetBlock returns: one or two transactions.
Blocks ==
    {<<s>> : s \in Signatures}
        \cup {b \in Signatures \X Signatures : b[1] # b[2]}

\* What a handler did: whether it panicked, the error it returned, the events
\* it built, the repository calls it made and table user_account_events after it.
HandlerNil ==
    [panic |-> FALSE, err |-> "nil", events |-> <<>>, saves |-> 0, rows |-> rows]

HandlerPanic ==
    [panic |-> TRUE, err |-> "nil", events |-> <<>>, saves |-> 0, rows |-> rows]

\* SaveUserAccountCreated: a plain INSERT.  The table has a SERIAL id as its
\* only key, and signature REFERENCES transactions(signature).
SaveUserAccountCreated(event) ==
    IF event.Signature \in transactions
    THEN [err |-> "nil",
          rows |-> Append(rows,
                     [id |-> Len(rows) + 1,
                      signature |-> event.Signature,
                      slot |-> event.Slot,
                      block_time |-> event.BlockTime,
                      event_type |-> "created",
                      pda |-> event.UserPDA,
                      authority |-> event.Authority,
                      new_points |-> event.InitialPoints])]
    ELSE [err |-> "foreign key violation", rows |-> rows]

\* A handler that takes the event's slot from the state of the store instead
\* of the transaction.
handleCreateUserAccount_SlotFromState(tx, ix) ==
    IF Len(ix.Accounts) < 2
    THEN HandlerPanic
    ELSE IF repository # "nil"
         THEN LET event == [Signature |-> tx.Signature,
                            Slot |-> Len(rows),
                            BlockTime |-> tx.BlockTime,
                            Authority |-> ix.Accounts[1],
                            UserPDA |-> ix.Accounts[2],
                            InitialPoints |-> 0]
                  saved == SaveUserAccountCreated(event)
              IN  [panic |-> FALSE, err |-> saved.err, events |-> <<event>>,
                   saves |-> 1, rows |-> saved.rows]
         ELSE HandlerNil

\* handleCreateUserAccount: ix.Accounts[0] and ix.Accounts[1] (an index out of
\* range panics), then the event and its save when there is a repository,
\* a log line otherwise.
handleCreateUserAccount(tx, ix) ==
    IF Len(ix.Accounts) < 2
    THEN HandlerPanic
    ELSE IF repository # "nil"
         THEN LET event == [Signature |-> tx.Signature,
                            Slot |-> tx.Slot,
                            BlockTime |-> tx.BlockTime,
                            Authority |-> ix.Accounts[1],
                            UserPDA |-> ix.Accounts[2],
                            InitialPoints |-> 0]
                  saved == SaveUserAccountCreated(event)
              IN  [panic |-> FALSE, err |-> saved.err, events |-> <<event>>,
                   saves |-> 1, rows |-> saved.rows]
         ELSE HandlerNil

\* handleStarterProgram: ix.Data[:8] (a slice beyond the data panics), then the
\* switch on string(discriminator).  The guide shows handleUpdateUserAccount
\* as a sketch of a notification alone and handleIncrementCounter not at all:
\* no instruction of the transactions above reaches either.
handleStarterProgram(tx, ix) ==
    IF Len(ix.Data) < DiscriminatorWidth
    THEN HandlerPanic
    ELSE LET discriminator == SubSeq(ix.Data, 1, DiscriminatorWidth)
         IN  IF discriminator = CaseLabels.create
             THEN handleCreateUserAccount(tx, ix)
             ELSE HandlerNil

\* The body of ProcessBlock's inner loop: the switch on the program id.  The
\* guide does not show handleCounterProgram: no instruction above reaches it.
HandleByProgram(tx, ix) ==
    IF AccountKeys[ix.ProgramIDIndex] = StarterProgramID
    THEN handleStarterProgram(tx, ix)
    ELSE HandlerNil

\* -------------------------------------------------------------------------
\* Package config: Load, Validate and the environment
\* -------------------------------------------------------------------------

\* The variables Load reads with getEnvOrDefault.
StringVars == {"SOLANA_RPC_URL", "SOLANA_WS_URL", "DATABASE_URL", "LOG_LEVEL"}

\* The variables Load reads with getEnvIntOrDefault.
IntVars ==
    {"START_SLOT", "POLL_INTERVAL_MS", "BATCH_SIZE", "MAX_CONCURRENCY", "SERVER_PORT"}

\* The field of Config each variable fills.
FieldOf ==
    [SOLANA_RPC_URL |-> "SolanaRPCURL", SOLANA_WS_URL |-> "SolanaWSURL",
     START_SLOT |-> "StartSlot", POLL_INTERVAL_MS |-> "PollInterval",
     BATCH_SIZE |-> "BatchSize", MAX_CONCURRENCY |-> "MaxConcurrency",
     DATABASE_URL |-> "DatabaseURL", SERVER_PORT |-> "ServerPort",
     LOG_LEVEL |-> "LogLevel"]

\* The defaults Load passes to getEnvOrDefault and getEnvIntOrDefault.
\* PollInterval is in milliseconds.
LoadDefaults ==
    [SOLANA_RPC_URL |-> "https://api.mainnet-beta.solana.com",
     SOLANA_WS_URL |-> "wss://api.mainnet-beta.solana.com",
     START_SLOT |-> 0,
     POLL_INTERVAL_MS |-> 1000,
     BATCH_SIZE |-> 10,
     MAX_CONCURRENCY |-> 5,
     DATABASE_URL |-> "postgres://localhost:5432/solana_indexer?sslmode=disable",
     SERVER_PORT |-> 8080,
     LOG_LEVEL |-> "info"]

\* The column Default of the README's configuration table.
ReadmeDefaults ==
    [SOLANA_RPC_URL |-> "https://api.mainnet-beta.solana.com",
     SOLANA_WS_URL |-> "wss://api.mainnet-beta.solana.com",
     START_SLOT |-> 0,
     POLL_INTERVAL_MS |-> 1000,
     BATCH_SIZE |-> 10,
     MAX_CONCURRENCY |-> 5,
     DATABASE_URL |-> "postgres://localhost:5432/solana_indexer",
     SERVER_PORT |-> 8080,
     LOG_LEVEL |-> "info"]

\* The highest port Validate accepts.
MaxServerPort == 65535

\* The value of a variable that is not set.  A string variable holds a string,
\* an integer variable the characters of its text.
Unset(k) == [set |-> FALSE, value |-> IF k \in IntVars THEN <<>> ELSE ""]

\* The values the operator gives the string variables.
StringValues ==
    [SOLANA_RPC_URL |-> "http://localhost:8899", SOLANA_WS_URL |-> "ws://localhost:8900",
     DATABASE_URL |-> "postgres://db:5432/indexer", LOG_LEVEL |-> "debug"]

\* The texts the operator gives an integer variable.
IntTexts ==
    {<<>>, <<"a", "b", "c">>, <<"1", "2", "a", "b", "c">>, <<"1", ".", "5">>,
     <<"0">>, <<"-", "1">>, <<"3">>, <<" ", "4">>, <<"+", "5">>,
     <<"6", "5", "5", "3", "5">>, <<"7", "0", "0", "0", "0">>}

\* What a variable can hold: nothing, the empty string, or a value.
EnvValues(k) ==
    {Unset(k)} \cup
    (IF k \in IntVars
     THEN {[set |-> TRUE, value |-> t] : t \in IntTexts}
     ELSE {[set |-> TRUE, value |-> v] : v \in {"", StringValues[k]}})

\* The environment with no variable set.
EmptyEnv == [k \in StringVars \cup IntVars |-> Unset(k)]

\* The environments Load is run in: at most two variables are set.
Environments ==
    UNION {UNION {{[EmptyEnv EXCEPT ![k1] = v1, ![k2] = v2] : v2 \in EnvValues(k2)}
                     : v1 \in EnvValues(k1)}
              : <<k1, k2>> \in (StringVars \cup IntVars) \X (StringVars \cup IntVars)}

\* os.Getenv: the value, and the empty string for a variable that is not set.
Getenv(e, k) == e[k].value

DigitChars == <<"0", "1", "2", "3", "4", "5", "6", "7", "8", "9">>

IsDigit(ch) == \E i \in DOMAIN DigitChars : DigitChars[i] = ch

DigitValue(ch) == (CHOOSE i \in DOMAIN DigitChars : DigitChars[i] = ch) - 1

\* The text without its leading spaces.
RECURSIVE SkipSpace(_)
SkipSpace(t) ==
    IF t # <<>> /\ Head(t) = " " THEN SkipSpace(Tail(t)) ELSE t

\* The longest run of decimal digits the text starts with.
RECURSIVE DigitPrefix(_)
DigitPrefix(t) ==
    IF t = <<>> \/ ~IsDigit(Head(t))
    THEN <<>>
    ELSE <<Head(t)>> \o DigitPrefix(Tail(t))

\* The number a run of decimal digits stands for.
RECURSIVE ParseDecimal(_)
ParseDecimal(digits) ==
    IF digits = <<>>
    THEN 0
    ELSE 10 * ParseDecimal(SubSeq(digits, 1, Len(digits) - 1))
             + DigitValue(digits[Len(digits)])

\* fmt.Sscanf(value, "%d", &intVal): leading spaces are skipped, a sign is
\* taken, then the digits that follow; what comes after them is not read.
\* No digit is an error.
Sscanf(value) ==
    LET t == SkipSpace(value)
        signed == t # <<>> /\ Head(t) \in {"+", "-"}
        digits == DigitPrefix(IF signed THEN Tail(t) ELSE t)
    IN  IF digits = <<>>
        THEN [err |-> "expected integer", intVal |-> 0]
        ELSE [err |-> "nil",
              intVal |-> IF signed /\ Head(t) = "-"
                         THEN 0 - ParseDecimal(digits)
                         ELSE ParseDecimal(digits)]

getEnvOrDefault(e, key, defaultValue) ==
    IF Getenv(e, key) # "" THEN Getenv(e, key) ELSE defaultValue

getEnvIntOrDefault(e, key, defaultValue) ==
    IF Getenv(e, key) # <<>> /\ Sscanf(Getenv(e, key)).err = "nil"
    THEN Sscanf(Getenv(e, key)).intVal
    ELSE defaultValue

\* A Validate that does not bound the port from above.
Validate_PortUnbounded(c) ==
    IF c.SolanaRPCURL = "" THEN "SOLANA_RPC_URL is required"
    ELSE IF c.BatchSize <= 0 THEN "BATCH_SIZE must be positive"
    ELSE IF c.MaxConcurrency <= 0 THEN "MAX_CONCURRENCY must be positive"
    ELSE IF c.ServerPort <= 0 THEN "SERVER_PORT must be between 1 and 65535"
    ELSE "nil"

\* Config.Validate: the error it returns, "nil" for none.
Validate(c) ==
    IF c.SolanaRPCURL = "" THEN "SOLANA_RPC_URL is required"
    ELSE IF c.BatchSize <= 0 THEN "BATCH_SIZE must be positive"
    ELSE IF c.MaxConcurrency <= 0 THEN "MAX_CONCURRENCY must be positive"
    ELSE IF c.ServerPort <= 0 \/ c.ServerPort > MaxServerPort
         THEN "SERVER_PORT must be between 1 and 65535"
    ELSE "nil"

\* The Config Load builds from the environment.
ConfigFromEnv(e) ==
    [SolanaRPCURL |-> getEnvOrDefault(e, "SOLANA_RPC_URL", LoadDefaults.SOLANA_RPC_URL),
     SolanaWSURL |-> getEnvOrDefault(e, "SOLANA_WS_URL", LoadDefaults.SOLANA_WS_URL),
     StartSlot |-> ToUint64(getEnvIntOrDefault(e, "START_SLOT", LoadDefaults.START_SLOT)),
     PollInterval |-> getEnvIntOrDefault(e, "POLL_INTERVAL_MS", LoadDefaults.POLL_INTERVAL_MS),
     BatchSize |-> getEnvIntOrDefault(e, "BATCH_SIZE", LoadDefaults.BATCH_SIZE),
     MaxConcurrency |-> getEnvIntOrDefault(e, "MAX_CONCURRENCY", LoadDefaults.MAX_CONCURRENCY),
     DatabaseURL |-> getEnvOrDefault(e, "DATABASE_URL", LoadDefaults.DATABASE_URL),
     ServerPort |-> getEnvIntOrDefault(e, "SERVER_PORT", LoadDefaults.SERVER_PORT),
     LogLevel |-> getEnvOrDefault(e, "LOG_LEVEL", LoadDefaults.LOG_LEVEL)]

\* The nil *Config.
NilConfig == [isNil |-> TRUE]

\* A Load that returns the Config it built without validating it.
Load_Unvalidated(e) ==
    [called |-> TRUE, cfg |-> ConfigFromEnv(e), err |-> "nil"]

\* Load: the Config from the environment, or nil and the wrapped error of
\* Validate.
Load(e) ==
    IF Validate(ConfigFromEnv(e)) # "nil"
    THEN [called |-> TRUE, cfg |-> NilConfig, err |-> "invalid configuration"]
    ELSE [called |-> TRUE, cfg |-> ConfigFromEnv(e), err |-> "nil"]

\* The Configs Validate is called on: the four fields it reads, each inside
\* and outside what it accepts.
ValidateInputs ==
    {[ConfigFromEnv(EmptyEnv) EXCEPT !.SolanaRPCURL = u, !.BatchSize = b,
                                     !.MaxConcurrency = m, !.ServerPort = p] :
        u \in {"", LoadDefaults.SOLANA_RPC_URL},
        b \in {-1, 0, 1},
        m \in {-1, 0, 1},
        p \in {0, 1, MaxServerPort, MaxServerPort + 1}}

\* Neither Load nor Validate has been called.
NotCalled == [called |-> FALSE]

ConfigIdle ==
    /\ loaded = NotCalled
    /\ validated = NotCalled

\* No ProcessBlock call is under way and none has been made.
ProcessorIdle ==
    /\ rows = <<>>
    /\ gpc = "idle"
    /\ block = <<>>
    /\ ti = 1
    /\ ii = 1
    /\ events = <<>>
    /\ decoded = [s \in Signatures |-> <<>>]
    /\ calls = 0
    /\ saveCalls = 0
    /\ gret = "none"

\* -------------------------------------------------------------------------
\* Init: the process before New is called
\* -------------------------------------------------------------------------
Init ==
    /\ cfg \in Configs
    /\ made = FALSE
    /\ newErr = "none"
    /\ currentSlot = 0
    /\ isRunning = FALSE
    /\ onceDone = FALSE
    /\ crashed = FALSE
    /\ pc = [c \in StartCalls |-> "idle"]
    /\ ctx = [c \in StartCalls |-> "live"]
    /\ tick = [c \in StartCalls |-> FALSE]
    /\ work = [c \in StartCalls |-> "none"]
    /\ snapshot = [c \in StartCalls |-> 0]
    /\ ret = [c \in StartCalls |-> "none"]
    /\ spc = [s \in ShutdownCalls |-> "idle"]
    /\ sret = [s \in ShutdownCalls |-> "none"]
    /\ sawLoops = [s \in ShutdownCalls |-> {}]
    /\ ledgerHeight = 0
    /\ processed = {}
    /\ labels = "names"
    /\ repository = "nil"
    /\ transactions = {}
    /\ ProcessorIdle
    /\ environ = EmptyEnv
    /\ ConfigIdle
    /\ exited = FALSE

\* -------------------------------------------------------------------------
\* Actions
\* -------------------------------------------------------------------------

\* A New that leaves currentSlot at the zero value of the struct.
New_ZeroSlot(nilCfg) ==
    /\ ~made
    /\ IF nilCfg
       THEN /\ newErr' = "config cannot be nil"
            /\ UNCHANGED <<made, currentSlot, isRunning>>
       ELSE /\ newErr' = "nil"
            /\ made' = TRUE
            /\ currentSlot' = 0
            /\ isRunning' = FALSE
    /\ UNCHANGED <<cfg, onceDone, crashed, startVars, shutdownVars, envVars, guideVars, configVars, exited>>

\* New(cfg): a nil cfg is refused with an error and no Indexer; any other cfg
\* gives an Indexer at cfg.StartSlot that is not running.  The process calls
\* New until it has its Indexer.
New(nilCfg) ==
    /\ ~made
    /\ IF nilCfg
       THEN /\ newErr' = "config cannot be nil"
            /\ UNCHANGED <<made, currentSlot, isRunning>>
       ELSE /\ newErr' = "nil"
            /\ made' = TRUE
            /\ currentSlot' = cfg.StartSlot
            /\ isRunning' = FALSE
    /\ UNCHANGED <<cfg, onceDone, crashed, startVars, shutdownVars, envVars, guideVars, configVars, exited>>

\* A Start whose rejection marks the indexer as stopped.
Start_RejectStops(c) ==
    /\ made /\ ~crashed
    /\ pc[c] = "idle"
    /\ IF isRunning
       THEN /\ pc' = [pc EXCEPT ![c] = "returned"]
            /\ ret' = [ret EXCEPT ![c] = "already running"]
            /\ isRunning' = FALSE
            /\ UNCHANGED crashed
       ELSE /\ isRunning' = TRUE
            /\ IF cfg.PollInterval <= 0
               THEN /\ crashed' = TRUE
                    /\ pc' = [pc EXCEPT ![c] = "panicked"]
               ELSE /\ crashed' = FALSE
                    /\ pc' = [pc EXCEPT ![c] = "select"]
            /\ UNCHANGED ret
    /\ UNCHANGED <<cfg, made, newErr, currentSlot, onceDone, ctx, tick, work, snapshot,
                   shutdownVars, envVars, guideVars, configVars, exited>>

\* Start, from its entry to the first select: the isRunning check under mu,
\* then time.NewTicker, which panics on a non-positive interval.
Start(c) ==
    /\ made /\ ~crashed
    /\ pc[c] = "idle"
    /\ IF isRunning
       THEN /\ pc' = [pc EXCEPT ![c] = "returned"]
            /\ ret' = [ret EXCEPT ![c] = "already running"]
            /\ UNCHANGED <<isRunning, crashed>>
       ELSE /\ isRunning' = TRUE
            /\ IF cfg.PollInterval <= 0
               THEN /\ crashed' = TRUE
                    /\ pc' = [pc EXCEPT ![c] = "panicked"]
               ELSE /\ crashed' = FALSE
                    /\ pc' = [pc EXCEPT ![c] = "select"]
            /\ UNCHANGED ret
    /\ UNCHANGED <<cfg, made, newErr, currentSlot, onceDone, ctx, tick, work, snapshot,
                   shutdownVars, envVars, guideVars, configVars, exited>>

\* The ticker of a running loop delivers a tick into ticker.C (capacity 1).
Tick(c) ==
    /\ ~crashed
    /\ InLoop(c)
    /\ ~tick[c]
    /\ tick' = [tick EXCEPT ![c] = TRUE]
    /\ UNCHANGED <<idxVars, pc, ctx, work, snapshot, ret, shutdownVars, envVars, guideVars, configVars, exited>>

\* The owner of a Start call's context cancels it (or its deadline passes).
CancelCtx(c) ==
    /\ ~crashed
    /\ ctx[c] = "live"
    /\ pc[c] # "returned"
    /\ ctx' = [ctx EXCEPT ![c] = "canceled"]
    /\ UNCHANGED <<idxVars, pc, tick, work, snapshot, ret, shutdownVars, envVars, guideVars, configVars, exited>>

\* A Start that takes the ctx.Done() case without waiting for the
\* processBlocks call it made (as if the call ran in a goroutine of its own).
StartCtxDone_DuringCall(c) ==
    /\ ~crashed
    /\ pc[c] \in {"select", "inCall"}
    /\ ctx[c] = "canceled"
    /\ pc' = [pc EXCEPT ![c] = "returned"]
    /\ ret' = [ret EXCEPT ![c] = CtxErr(c)]
    /\ UNCHANGED <<idxVars, ctx, tick, work, snapshot, shutdownVars, envVars, guideVars, configVars, exited>>

\* select: case <-ctx.Done(): return ctx.Err()
StartCtxDone(c) ==
    /\ ~crashed
    /\ pc[c] = "select"
    /\ ctx[c] = "canceled"
    /\ pc' = [pc EXCEPT ![c] = "returned"]
    /\ ret' = [ret EXCEPT ![c] = CtxErr(c)]
    /\ UNCHANGED <<idxVars, ctx, tick, work, snapshot, shutdownVars, envVars, guideVars, configVars, exited>>

\* select: case <-ticker.C: the loop calls processBlocks, which reads
\* currentSlot under RLock and then sleeps (the simulated work).
StartSelectTick(c) ==
    /\ ~crashed
    /\ pc[c] = "select"
    /\ tick[c]
    /\ tick' = [tick EXCEPT ![c] = FALSE]
    /\ pc' = [pc EXCEPT ![c] = "inCall"]
    /\ work' = [work EXCEPT ![c] = "sleeping"]
    /\ snapshot' = [snapshot EXCEPT ![c] = currentSlot]
    /\ UNCHANGED <<idxVars, ctx, ret, shutdownVars, envVars, guideVars, configVars, exited>>

\* processBlocks: the update of currentSlot under Lock, and the return (nil)
\* to the loop.  The slots it covered and that the ledger has are processed.
ProcessBlocksUpdate(c) ==
    /\ ~crashed
    /\ work[c] = "sleeping"
    /\ currentSlot' = AddSlot(currentSlot, cfg.BatchSize)
    /\ processed' = processed \cup
           {s \in BatchWindow(snapshot[c], cfg.BatchSize) : s <= ledgerHeight}
    /\ work' = [work EXCEPT ![c] = "none"]
    /\ snapshot' = [snapshot EXCEPT ![c] = 0]
    /\ pc' = [pc EXCEPT ![c] = IF pc[c] = "inCall" THEN "select" ELSE pc[c]]
    /\ UNCHANGED <<cfg, made, newErr, isRunning, onceDone, crashed, ctx, tick, ret,
                   shutdownVars, ledgerHeight, guideVars, configVars, exited>>

\* A Shutdown without the Once: every call runs the function.
Shutdown_NoOnce(s) ==
    /\ made /\ ~crashed
    /\ spc[s] = "idle"
    /\ sawLoops' = [sawLoops EXCEPT ![s] = {c \in StartCalls : InLoop(c)}]
    /\ isRunning' = FALSE
    /\ onceDone' = TRUE
    /\ spc' = [spc EXCEPT ![s] = "returned"]
    /\ sret' = [sret EXCEPT ![s] = "nil"]
    /\ UNCHANGED <<cfg, made, newErr, currentSlot, crashed, startVars, envVars, guideVars, configVars, exited>>

\* A Shutdown whose function also puts the cursor back to the configured start.
Shutdown_ResetsCursor(s) ==
    /\ made /\ ~crashed
    /\ spc[s] = "idle"
    /\ sawLoops' = [sawLoops EXCEPT ![s] = {c \in StartCalls : InLoop(c)}]
    /\ IF onceDone
       THEN UNCHANGED <<isRunning, onceDone, currentSlot>>
       ELSE /\ isRunning' = FALSE
            /\ onceDone' = TRUE
            /\ currentSlot' = cfg.StartSlot
    /\ spc' = [spc EXCEPT ![s] = "returned"]
    /\ sret' = [sret EXCEPT ![s] = "nil"]
    /\ UNCHANGED <<cfg, made, newErr, crashed, startVars, envVars, guideVars, configVars, exited>>

\* Shutdown: shutdownOnce.Do runs the function once, under mu; every later
\* call (one that overlaps the first waits for it) finds the Once done.
\* shutdownErr is never assigned: every call returns nil.
Shutdown(s) ==
    /\ made /\ ~crashed
    /\ spc[s] = "idle"
    /\ sawLoops' = [sawLoops EXCEPT ![s] = {c \in StartCalls : InLoop(c)}]
    /\ IF onceDone
       THEN UNCHANGED <<isRunning, onceDone>>
       ELSE /\ isRunning' = FALSE
            /\ onceDone' = TRUE
    /\ spc' = [spc EXCEPT ![s] = "returned"]
    /\ sret' = [sret EXCEPT ![s] = "nil"]
    /\ UNCHANGED <<cfg, made, newErr, currentSlot, crashed, startVars, envVars, guideVars, configVars, exited>>

\* The ledger produces its next slot.
LedgerProduce ==
    /\ ~crashed
    /\ ledgerHeight < MaxLedgerHeight
    /\ ledgerHeight' = ledgerHeight + 1
    /\ UNCHANGED <<idxVars, startVars, shutdownVars, processed, guideVars, configVars, exited>>

\* What the process does: New, the Start calls and the Shutdown calls.
IndexerNext ==
    \/ \E nilCfg \in BOOLEAN : New(nilCfg)
    \/ \E c \in StartCalls :
          \/ Start(c)
          \/ Tick(c)
          \/ CancelCtx(c)
          \/ StartCtxDone(c)
          \/ StartSelectTick(c)
          \/ ProcessBlocksUpdate(c)
    \/ \E s \in ShutdownCalls : Shutdown(s)

Next ==
    \/ IndexerNext
    \/ LedgerProduce

Spec == Init /\ [][Next]_vars

\* The scheduling the Go runtime gives a running process: time passes (tickers
\* fire, sleeps end), a select with one ready case takes it, and a select that
\* is reached again and again with ctx.Done() ready takes that case in the end
\* (select chooses uniformly at random among its ready cases).  Whether a
\* context is ever cancelled is up to its owner: CancelCtx has no fairness.
Fairness ==
    \A c \in StartCalls :
        /\ WF_vars(Tick(c))
        /\ WF_vars(StartSelectTick(c))
        /\ WF_vars(ProcessBlocksUpdate(c))
        /\ SF_vars(StartCtxDone(c))

\* The fair behaviours of the process.  The indexer never reads the ledger, so
\* what the ledger does cannot change what Start and Shutdown do: the ledger
\* stands still here.
FairSpec == Init /\ [][IndexerNext]_vars /\ Fairness

\* ProcessBlock, up to its loop: GetBlock returns the block or an error, and
\* an error is returned to the caller.
ProcessBlock(b) ==
    /\ gpc = "idle"
    /\ calls < MaxProcessCalls
    /\ calls' = calls + 1
    /\ \E fetched \in BOOLEAN :
          IF fetched
          THEN /\ gpc' = "loop"
               /\ block' = b
               /\ gret' = "none"
          ELSE /\ gret' = "failed to get block"
               /\ UNCHANGED <<gpc, block>>
    /\ ti' = 1
    /\ ii' = 1
    /\ events' = <<>>
    /\ saveCalls' = 0
    /\ UNCHANGED <<idxVars, startVars, shutdownVars, envVars, configVars, exited, labels, repository,
                   transactions, rows, decoded>>

\* One pass of the inner loop of ProcessBlock: the instruction at ii of the
\* transaction at ti is handled; an error the handler returns is logged, a
\* panic ends the process.
HandleInstruction ==
    /\ gpc = "loop"
    /\ ti <= Len(block)
    /\ LET tx == Transactions[block[ti]]
           ix == tx.Instructions[ii]
           done == HandleByProgram(tx, ix)
       IN  IF done.panic
           THEN /\ gpc' = "panicked"
                /\ UNCHANGED <<rows, ti, ii, events, decoded, saveCalls>>
           ELSE /\ rows' = done.rows
                /\ saveCalls' = saveCalls + done.saves
                /\ gpc' = gpc
                /\ IF ii < Len(tx.Instructions)
                   THEN /\ ii' = ii + 1
                        /\ events' = events \o done.events
                        /\ UNCHANGED <<ti, decoded>>
                   ELSE /\ ti' = ti + 1
                        /\ ii' = 1
                        /\ events' = <<>>
                        /\ decoded' =
                              [decoded EXCEPT ![tx.Signature] =
                                  Append(@, events \o done.events)]
    /\ UNCHANGED <<idxVars, startVars, shutdownVars, envVars, configVars, exited, labels, repository,
                   transactions, block, calls, gret>>

\* ProcessBlock returns nil after the last transaction.
ProcessBlockReturn ==
    /\ gpc = "loop"
    /\ ti > Len(block)
    /\ gpc' = "idle"
    /\ gret' = "nil"
    /\ UNCHANGED <<idxVars, startVars, shutdownVars, envVars, configVars, exited, labels, repository,
                   transactions, rows, block, ti, ii, events, decoded, calls,
                   saveCalls>>

\* The processor before its first call: the labels as printed or taken from
\* the IDL, with or without a repository, table transactions empty or filled.
GuideInit ==
    /\ cfg = ValidConfig
    /\ made = FALSE
    /\ newErr = "none"
    /\ currentSlot = 0
    /\ isRunning = FALSE
    /\ onceDone = FALSE
    /\ crashed = FALSE
    /\ pc = [c \in StartCalls |-> "idle"]
    /\ ctx = [c \in StartCalls |-> "live"]
    /\ tick = [c \in StartCalls |-> FALSE]
    /\ work = [c \in StartCalls |-> "none"]
    /\ snapshot = [c \in StartCalls |-> 0]
    /\ ret = [c \in StartCalls |-> "none"]
    /\ spc = [s \in ShutdownCalls |-> "idle"]
    /\ sret = [s \in ShutdownCalls |-> "none"]
    /\ sawLoops = [s \in ShutdownCalls |-> {}]
    /\ ledgerHeight = 0
    /\ processed = {}
    /\ labels \in {"names", "idl"}
    /\ repository \in {"nil", "postgres"}
    /\ transactions \in {{}, Signatures}
    /\ ProcessorIdle
    /\ environ = EmptyEnv
    /\ ConfigIdle
    /\ exited = FALSE

GuideNext ==
    \/ \E b \in Blocks : ProcessBlock(b)
    \/ HandleInstruction
    \/ ProcessBlockReturn

GuideSpec == GuideInit /\ [][GuideNext]_vars

\* The process calls Load.
LoadCall ==
    /\ ~loaded.called
    /\ loaded' = Load(environ)
    /\ UNCHANGED <<idxVars, startVars, shutdownVars, envVars, guideVars, exited, environ,
                   validated>>

\* The process calls Validate on a Config.
ValidateCall(c) ==
    /\ ~validated.called
    /\ validated' = [called |-> TRUE, cfg |-> c, err |-> Validate(c)]
    /\ UNCHANGED <<idxVars, startVars, shutdownVars, envVars, guideVars, exited, environ,
                   loaded>>

\* Package config before any call, in an environment the operator has set.
ConfigInit ==
    /\ cfg = ValidConfig
    /\ made = FALSE
    /\ newErr = "none"
    /\ currentSlot = 0
    /\ isRunning = FALSE
    /\ onceDone = FALSE
    /\ crashed = FALSE
    /\ pc = [c \in StartCalls |-> "idle"]
    /\ ctx = [c \in StartCalls |-> "live"]
    /\ tick = [c \in StartCalls |-> FALSE]
    /\ work = [c \in StartCalls |-> "none"]
    /\ snapshot = [c \in StartCalls |-> 0]
    /\ ret = [c \in StartCalls |-> "none"]
    /\ spc = [s \in ShutdownCalls |-> "idle"]
    /\ sret = [s \in ShutdownCalls |-> "none"]
    /\ sawLoops = [s \in ShutdownCalls |-> {}]
    /\ ledgerHeight = 0
    /\ processed = {}
    /\ labels = "names"
    /\ repository = "nil"
    /\ transactions = {}
    /\ ProcessorIdle
    /\ environ \in Environments
    /\ ConfigIdle
    /\ exited = FALSE

ConfigNext ==
    \/ LoadCall
    \/ \E c \in ValidateInputs : ValidateCall(c)

ConfigSpec == ConfigInit /\ [][ConfigNext]_vars

\* The part of the Config of package config that the Indexer reads.
IndexerConfig(c) ==
    [StartSlot |-> c.StartSlot, BatchSize |-> c.BatchSize,
     PollInterval |-> c.PollInterval, MaxConcurrency |-> c.MaxConcurrency]

\* The environments main is run in: at most one integer variable is set.
MainEnvironments ==
    UNION {{[EmptyEnv EXCEPT ![k] = v] : v \in EnvValues(k)} : k \in IntVars}

\* The Start call of main's goroutine and main's Shutdown call.
MainStart == "start1"

MainShutdown == "shutdown1"

\* main: config.Load().
MainLoad ==
    /\ ~exited
    /\ LoadCall

\* main: log.Fatalf after a Load that returned an error.
MainFatal ==
    /\ ~exited
    /\ loaded.called /\ loaded.err # "nil"
    /\ exited' = TRUE
    /\ UNCHANGED <<idxVars, startVars, shutdownVars, envVars, guideVars, configVars>>

\* main: indexer.New(cfg) with the Config Load returned.
MainNew ==
    /\ ~exited
    /\ loaded.called /\ loaded.err = "nil"
    /\ New(FALSE)

\* main's goroutine: idx.Start(ctx), its loop and its cycles.  The goroutine
\* runs as long as the process does.
MainGoroutine ==
    /\ ~exited
    /\ \/ Start(MainStart)
       \/ Tick(MainStart)
       \/ StartSelectTick(MainStart)
       \/ ProcessBlocksUpdate(MainStart)
       \/ StartCtxDone(MainStart)

\* main's select: a signal arrives and main calls cancel().  (The other case,
\* a receive from errChan, needs a Start that returned an error: before
\* cancel() no Start of main does.)
MainSignal ==
    /\ ~exited
    /\ made
    /\ CancelCtx(MainStart)

\* main: idx.Shutdown(context.Background()) after the select.
MainShutdownCall ==
    /\ ~exited
    /\ ctx[MainStart] = "canceled"
    /\ Shutdown(MainShutdown)

\* main: log.Println("indexer stopped successfully") and the return of main,
\* which ends the process and every goroutine in it.
MainExit ==
    /\ ~exited /\ ~crashed
    /\ spc[MainShutdown] = "returned"
    /\ exited' = TRUE
    /\ UNCHANGED <<idxVars, startVars, shutdownVars, envVars, guideVars, configVars>>

\* The process before main runs: the Config is the one Load will build.
MainInit ==
    /\ environ \in MainEnvironments
    /\ cfg = IndexerConfig(ConfigFromEnv(environ))
    /\ made = FALSE
    /\ newErr = "none"
    /\ currentSlot = 0
    /\ isRunning = FALSE
    /\ onceDone = FALSE
    /\ crashed = FALSE
    /\ pc = [c \in StartCalls |-> "idle"]
    /\ ctx = [c \in StartCalls |-> "live"]
    /\ tick = [c \in StartCalls |-> FALSE]
    /\ work = [c \in StartCalls |-> "none"]
    /\ snapshot = [c \in StartCalls |-> 0]
    /\ ret = [c \in StartCalls |-> "none"]
    /\ spc = [s \in ShutdownCalls |-> "idle"]
    /\ sret = [s \in ShutdownCalls |-> "none"]
    /\ sawLoops = [s \in ShutdownCalls |-> {}]
    /\ ledgerHeight = 0
    /\ processed = {}
    /\ labels = "names"
    /\ repository = "nil"
    /\ transactions = {}
    /\ ProcessorIdle
    /\ ConfigIdle
    /\ exited = FALSE

MainNext ==
    \/ MainLoad
    \/ MainFatal
    \/ MainNew
    \/ MainGoroutine
    \/ MainSignal
    \/ MainShutdownCall
    \/ MainExit

MainSpec == MainInit /\ [][MainNext]_vars

TypeOK ==
    /\ cfg \in Configs
    /\ made \in BOOLEAN
    /\ newErr \in {"none", "nil", "config cannot be nil"}
    /\ currentSlot \in Slots
    /\ isRunning \in BOOLEAN
    /\ onceDone \in BOOLEAN
    /\ crashed \in BOOLEAN
    /\ pc \in [StartCalls -> {"idle", "select", "inCall", "returned", "panicked"}]
    /\ ctx \in [StartCalls -> {"live", "canceled"}]
    /\ tick \in [StartCalls -> BOOLEAN]
    /\ work \in [StartCalls -> {"none", "sleeping"}]
    /\ snapshot \in [StartCalls -> Slots]
    /\ ret \in [StartCalls -> {"none", "already running", "context canceled", "nil"}]
    /\ spc \in [ShutdownCalls -> {"idle", "returned"}]
    /\ sret \in [ShutdownCalls -> {"none", "nil"}]
    /\ sawLoops \in [ShutdownCalls -> SUBSET StartCalls]
    /\ ledgerHeight \in 0..MaxLedgerHeight
    /\ processed \subseteq Slots

\* -------------------------------------------------------------------------
\* Steps and situations the claims speak of
\* -------------------------------------------------------------------------

\* This step begins a block-processing cycle of Start call c.
CycleBegins(c) == pc[c] = "select" /\ pc'[c] = "inCall"

\* This step completes a block-processing cycle of Start call c.
CycleCompletes(c) == work[c] = "sleeping" /\ work'[c] = "none"

\* This step is the return of Shutdown call s.
ShutdownReturns(s) == spc[s] = "idle" /\ spc'[s] = "returned"

\* A Shutdown call made while the loop of Start call c was active has returned.
ShutdownReturnedFor(c) ==
    \E s \in ShutdownCalls : spc[s] = "returned" /\ c \in sawLoops[s]

\* The Config is one whose BatchSize Validate accepts.
BatchSizeValid == cfg.BatchSize > 0

\* The Config is one Validate accepts, as far as the fields the Indexer holds go.
ConfigValid == BatchSizeValid /\ cfg.MaxConcurrency > 0

\* This step is Start call c returning "indexer is already running".
StartRejected(c) == pc[c] = "idle" /\ ret'[c] = "already running"

\* This step is Start call c passing the isRunning check of Start.
StartChecks(c) == pc[c] = "idle" /\ pc'[c] # "idle"

\* The Start calls that are inside their for/select loop.
ActiveLoops == {c \in StartCalls : InLoop(c)}

\* This step is the return of Start call c from its loop.
LoopReturns(c) == InLoop(c) /\ pc'[c] = "returned"

\* The text is a decimal number: digits, with or without a sign before them
\* and spaces before that.
IsNumber(text) ==
    LET t == SkipSpace(text)
        body == IF t # <<>> /\ Head(t) \in {"+", "-"} THEN Tail(t) ELSE t
    IN  body # <<>> /\ \A i \in DOMAIN body : IsDigit(body[i])

\* The number a text that is a decimal number stands for.
NumberOf(text) ==
    LET t == SkipSpace(text)
    IN  IF Head(t) = "-" THEN 0 - ParseDecimal(Tail(t))
        ELSE IF Head(t) = "+" THEN ParseDecimal(Tail(t))
        ELSE ParseDecimal(t)

\* What the README's table promises for a variable: its value in the
\* environment, and the documented default when it has none (an integer
\* variable: when its text is not a number).
Documented(e, k) ==
    IF k \in IntVars
    THEN IF e[k].set /\ IsNumber(e[k].value)
         THEN NumberOf(e[k].value)
         ELSE ReadmeDefaults[k]
    ELSE IF e[k].set /\ e[k].value # ""
         THEN e[k].value
         ELSE ReadmeDefaults[k]

\* The Start calls whose processBlocks invocation is in flight.
InFlight == {c \in StartCalls : work[c] # "none"}

\* The event a row of user_account_events stores: the row without its id.
EventOfRow(row) ==
    [signature |-> row.signature, slot |-> row.slot, block_time |-> row.block_time,
     event_type |-> row.event_type, pda |-> row.pda, authority |-> row.authority,
     new_points |-> row.new_points]

Min(a, b) == IF a <= b THEN a ELSE b

Max(a, b) == IF a >= b THEN a ELSE b

\* The cycle of Start call c can process nothing: the ledger has not produced
\* the first slot of its window.
CycleFails(c) == work[c] = "sleeping" /\ snapshot[c] > ledgerHeight

\* The number of slots of the window of batchSize slots from slot that form
\* its longest prefix of successes: a slot succeeds when the ledger has it.
SuccessPrefix(slot, batchSize, height) ==
    Cardinality({s \in BatchWindow(slot, batchSize) : s <= height})

\* -------------------------------------------------------------------------
\* Claims
\* -------------------------------------------------------------------------

\* C1: in every reachable state every height below the cursor (and from the
\* start slot on) has been processed; the cursor is never advanced past a
\* height whose processing did not succeed.
C1_BelowCursorProcessed ==
    made => \A h \in Slots : (cfg.StartSlot <= h /\ h < GetCurrentSlot) => h \in processed

\* C2: a poll cycle leaves the cursor exactly past the longest contiguous
\* prefix of successful heights of its window, which starts at the height the
\* cycle read; a failed height N keeps the cursor at N, cycle after cycle.
\* (Stated for the Configs that Validate accepts.)
C2_AdvancePastSuccessPrefix ==
    [][\A c \in StartCalls :
          (ConfigValid /\ CycleCompletes(c)) =>
              currentSlot' = snapshot[c] + SuccessPrefix(snapshot[c], cfg.BatchSize, ledgerHeight)]_vars

\* C3: a poll cycle never advances the cursor beyond
\* min(current_height, cursor + batch_size - 1) + 1, and leaves it unchanged
\* when that window is empty.  (Stated for the Configs that Validate accepts.)
C3_AdvanceWithinWindow ==
    [][\A c \in StartCalls :
          (ConfigValid /\ CycleCompletes(c)) =>
              IF Min(ledgerHeight, snapshot[c] + cfg.BatchSize - 1) < snapshot[c]
              THEN currentSlot' = currentSlot
              ELSE currentSlot' <= Min(ledgerHeight, snapshot[c] + cfg.BatchSize - 1) + 1]_vars

\* C4: the cursor is monotonically non-decreasing: GetCurrentSlot never
\* returns a smaller value after a larger one, for any Config given to New
\* (stated here for the Configs that Validate accepts alone).
C4_CursorMonotonic ==
    [][(made /\ ConfigValid) => GetCurrentSlot' >= GetCurrentSlot]_vars

\* C5: once a Shutdown call made while a Start loop was active has returned,
\* that loop begins no new block-processing cycle.
C5_NoCycleAfterShutdown ==
    [][\A c \in StartCalls :
          (ConfigValid /\ ShutdownReturnedFor(c)) => ~CycleBegins(c)]_vars

\* C6: Shutdown blocks until the loop has stopped: a loop that was active when
\* Shutdown was called has returned, or is certain to return, once Shutdown has
\* returned, whether or not the context of Start is ever cancelled.
C6_ShutdownStopsLoop ==
    \A c \in StartCalls :
        (ConfigValid /\ ShutdownReturnedFor(c)) ~> (pc[c] = "returned")

\* C7: after the context of a Start call has been cancelled, its loop begins
\* no further block-processing cycle, also when a tick is pending.
C7_NoCycleAfterCancel ==
    [][\A c \in StartCalls :
          (ConfigValid /\ ctx[c] = "canceled") => ~CycleBegins(c)]_vars

\* C8: Start never returns while a block-processing invocation it began is in
\* flight: when it has returned, the cycle and its cursor update are complete.
C8_ReturnedMeansNoWorkInFlight ==
    \A c \in StartCalls : pc[c] = "returned" => work[c] = "none"

\* C8 witness: a Start call has returned for cancellation after a cycle that
\* moved the cursor.
C8_Witness ==
    \E c \in StartCalls :
        /\ pc[c] = "returned"
        /\ ret[c] = "context canceled"
        /\ currentSlot # cfg.StartSlot

\* C9: under fair scheduling, a Start call that is in its loop and whose
\* context is cancelled returns in the end, and returns the context's error.
C9_CancelledStartReturns ==
    \A c \in StartCalls :
        (InLoop(c) /\ ctx[c] = "canceled")
            ~> (pc[c] = "returned" /\ ret[c] = "context canceled")

\* C9 witness: a Start call cancelled in the middle of a cycle.
C9_Witness ==
    \E c \in StartCalls : pc[c] = "inCall" /\ ctx[c] = "canceled" /\ tick[c]

\* C10: Shutdown is idempotent: every call returns nil, and a call that
\* follows a returned call leaves the indexer as that call left it.
C10_ShutdownIdempotent ==
    [][\A s \in ShutdownCalls :
          ShutdownReturns(s) =>
              /\ sret'[s] = "nil"
              /\ (\E t \in ShutdownCalls : spc[t] = "returned")
                     => UNCHANGED <<isRunning, onceDone, currentSlot>>]_vars

\* C10 witness: two Shutdown calls have returned, the second one made while
\* the indexer was running.
C10_Witness ==
    /\ \A s \in ShutdownCalls : spc[s] = "returned" /\ sret[s] = "nil"
    /\ \E s \in ShutdownCalls : sawLoops[s] # {}
    /\ \E s \in ShutdownCalls : sawLoops[s] = {}

\* C11: at no point are more than MaxConcurrency block-processing invocations
\* in flight, for any sequence of Start and Shutdown calls on one Indexer.
\* (Stated for the Configs that Validate accepts.)
C11_InFlightWithinMaxConcurrency ==
    ConfigValid => Cardinality(InFlight) <= cfg.MaxConcurrency

\* C12: with a Config that violates a startup invariant (BatchSize <= 0 or
\* MaxConcurrency <= 0), Start returns an error at once and never enters the
\* run loop: no poll cycle runs and the cursor stays at the start slot.
C12_InvalidConfigNeverEntersLoop ==
    (made /\ ~ConfigValid) =>
        /\ \A c \in StartCalls :
              /\ ~InLoop(c)
              /\ work[c] = "none"
              /\ pc[c] = "returned" => ret[c] \notin {"none", "nil"}
        /\ currentSlot = cfg.StartSlot

C15_NotFoundHeightDeferred ==
    (made /\ ConfigValid) => currentSlot <= Max(cfg.StartSlot, ledgerHeight + 1)

C19_SaveTwiceStoresOnce ==
    \A i \in DOMAIN rows, j \in DOMAIN rows :
        EventOfRow(rows[i]) = EventOfRow(rows[j]) => i = j

\* C20: a malformed instruction (data shorter than a discriminator, missing
\* accounts) affects that instruction alone: no panic escapes ProcessBlock,
\* which goes on to the remaining instructions and returns nil.
C20_MalformedInstructionIsolated ==
    /\ gpc # "panicked"
    /\ (gpc = "idle" /\ gret = "nil") =>
           \A k \in DOMAIN block : decoded[block[k]] # <<>>

\* C21: whenever a Start call is executing its poll loop, IsRunning() returns
\* true, whatever Shutdown and the other calls do meanwhile.
C21_RunningWhileInLoop ==
    (ConfigValid /\ ActiveLoops # {}) => IsRunning

\* C28: at most one poll loop is active per Indexer at any time, for any
\* sequence and interleaving of Start and Shutdown calls.
C28_AtMostOneLoop ==
    ConfigValid => Cardinality(ActiveLoops) <= 1

\* C29: when a call to Shutdown has returned, IsRunning() is false (and stays
\* so until the next Start), also when Shutdown was called once before Start.
C29_NotRunningAfterShutdown ==
    [][\A s \in ShutdownCalls :
          (ConfigValid /\ ShutdownReturns(s)) => ~IsRunning']_vars

\* C30: when a Start call has returned because its context was cancelled, and
\* no other loop is active, IsRunning() is false (so that a Start with a fresh
\* context is accepted).
C30_NotRunningAfterCancelledStart ==
    [][\A c \in StartCalls :
          (ConfigValid /\ LoopReturns(c) /\ ActiveLoops = {c}) => ~IsRunning']_vars

\* C26: the cursor has one writer. A step in which a Shutdown call returns, or
\* in which a Start call is rejected as already running, leaves the cursor as
\* it was, and once New has returned the cursor changes only in a step that
\* completes a processBlocks call of a poll loop. (GetCurrentSlot and IsRunning
\* are reads of the state: they are no step at all.)
C26_CursorSingleWriter ==
    [][/\ \A s \in ShutdownCalls : ShutdownReturns(s) => currentSlot' = currentSlot
       /\ \A c \in StartCalls : StartRejected(c) => currentSlot' = currentSlot
       /\ (made /\ currentSlot' # currentSlot) => \E c \in StartCalls : CycleCompletes(c)]_vars

\* A Shutdown has returned and a Start was rejected after the loop had moved
\* the cursor off the configured start.
C26_Witness ==
    /\ \E s \in ShutdownCalls : spc[s] = "returned"
    /\ \E c \in StartCalls : ret[c] = "already running"
    /\ currentSlot # cfg.StartSlot

\* C22: New(nil) returns an error and no Indexer; New with any other Config
\* returns no error and an Indexer whose GetCurrentSlot() is cfg.StartSlot and
\* whose IsRunning() is false as long as no Start call has been made.
C22_NewContract ==
    /\ newErr = "config cannot be nil" => ~made
    /\ newErr = "nil" => made
    /\ (made /\ \A c \in StartCalls : pc[c] = "idle") =>
           (GetCurrentSlot = cfg.StartSlot /\ ~IsRunning)

\* New has returned an Indexer for a Config whose StartSlot is not the zero
\* value, and no Start call has been made yet.
C22_Witness ==
    /\ made /\ newErr = "nil"
    /\ cfg.StartSlot # 0
    /\ \A c \in StartCalls : pc[c] = "idle"

\* C27: a ProcessBlock call makes at most one call to the repository, however
\* many transactions and instructions of the block carry an event.
C27_OneSavePerBlock ==
    saveCalls <= 1

\* C23: Validate returns nil exactly for the Configs whose SolanaRPCURL is not
\* empty, whose BatchSize and MaxConcurrency are positive and whose ServerPort
\* lies in 1..65535, and an error for every other Config.
C23_ValidateAcceptsExactly ==
    validated.called =>
        (validated.err = "nil" <=>
            /\ validated.cfg.SolanaRPCURL # ""
            /\ validated.cfg.BatchSize > 0
            /\ validated.cfg.MaxConcurrency > 0
            /\ 1 <= validated.cfg.ServerPort
            /\ validated.cfg.ServerPort <= 65535)

\* Validate has refused a Config whose only fault is a port one above the range.
C23_Witness ==
    /\ validated.called
    /\ validated.err # "nil"
    /\ validated.cfg.SolanaRPCURL # ""
    /\ validated.cfg.BatchSize > 0
    /\ validated.cfg.MaxConcurrency > 0
    /\ validated.cfg.ServerPort = 65536

\* C24: a Config that Load returns holds, for each of the nine variables, the
\* value the environment gives it, and the default of the README's table when
\* the environment gives none (for an integer variable: when the variable is
\* not set, is empty or is not a number).
C24_LoadUsesEnvOrDocumentedDefault ==
    (loaded.called /\ loaded.err = "nil") =>
        \A k \in StringVars \cup IntVars :
            loaded.cfg[FieldOf[k]] =
                IF k = "START_SLOT"
                THEN ToUint64(Documented(environ, k))
                ELSE Documented(environ, k)

\* C25: Load returns either an error and a nil Config, or no error and a
\* Config that Validate accepts.
C25_LoadValidates ==
    loaded.called =>
        \/ loaded.err # "nil" /\ loaded.cfg = NilConfig
        \/ /\ loaded.err = "nil"
           /\ loaded.cfg # NilConfig
           /\ Validate(loaded.cfg) = "nil"

\* Load has returned an error in an environment that sets BATCH_SIZE to 0.
C25_Witness ==
    /\ loaded.called
    /\ loaded.err # "nil"
    /\ environ["BATCH_SIZE"] = [set |-> TRUE, value |-> <<"0">>]

\* C31: a Start call that finds the indexer running returns "indexer is
\* already running" in that same step, and the step leaves the cursor, the
\* running flag, the active loops and the work in flight as they were.
C31_StartWhileRunningRejected ==
    [][\A c \in StartCalls :
          (StartChecks(c) /\ IsRunning) =>
              /\ pc'[c] = "returned"
              /\ ret'[c] = "already running"
              /\ GetCurrentSlot' = GetCurrentSlot
              /\ IsRunning'
              /\ ActiveLoops' = ActiveLoops
              /\ InFlight' = InFlight]_vars

\* A Start call was rejected while the loop of another was in a cycle.
C31_Witness ==
    /\ \E c \in StartCalls : ret[c] = "already running"
    /\ \E c \in StartCalls : pc[c] = "inCall" /\ work[c] = "sleeping"
    /\ isRunning

\* C32: with a Config that Validate accepts, every step that completes a
\* processBlocks call moves the cursor by exactly BatchSize in the word (no
\* update of another call is lost), and the sum does not wrap: the new cursor
\* is the old one plus BatchSize as integers.
C32_CursorAdvancesWithoutWrap ==
    [][\A c \in StartCalls :
          (ConfigValid /\ CycleCompletes(c)) =>
              /\ GetCurrentSlot' = AddSlot(GetCurrentSlot, cfg.BatchSize)
              /\ GetCurrentSlot' = GetCurrentSlot + cfg.BatchSize]_vars

\* C33: with a Config that Validate accepts, the process never dies of a
\* panic in Start.
C33_ValidConfigNeverPanics ==
    ConfigValid => (~crashed /\ \A c \in StartCalls : pc[c] # "panicked")

\* C34: when START_SLOT is a number n and Load returns a Config, its
\* StartSlot is n for an n of the word's range from 0 on, and for a negative n
\* it is not a slot of the upper half of the word.
C34_StartSlotNeverWraps ==
    (/\ loaded.called /\ loaded.err = "nil"
     /\ environ["START_SLOT"].set /\ IsNumber(environ["START_SLOT"].value)) =>
        LET n == NumberOf(environ["START_SLOT"].value)
        IN  /\ (0 <= n /\ n < SlotModulus) => loaded.cfg.StartSlot = n
            /\ n < 0 => 2 * loaded.cfg.StartSlot < SlotModulus

\* C35: when main has reported the stop and left, after its Shutdown call
\* returned, the Start call of its goroutine is not in its loop and no
\* processBlocks call is in flight.
C35_ExitAfterStartReturned ==
    (exited /\ spc[MainShutdown] = "returned") =>
        (~InLoop(MainStart) /\ InFlight = {})
====
